---- MODULE Spec2Model ----
(***************************************************************************)
(* Governance / reputation engine of the Nexus platform.                   *)
(*                                                                         *)
(* ReputationSystem.sol (src/unnamed/part_008) together with the parts of  *)
(* ProfileRegistry.sol (src/contracts/ProfileRegistry.sol) it reads and    *)
(* calls.  Every external call of a contract is one atomic step (a         *)
(* transaction).  A reverted transaction changes no contract storage, so   *)
(* an action is enabled exactly when the call does not revert: "the call   *)
(* fails" is "the action is not enabled".  uint256 arithmetic never comes  *)
(* near 2^256 within the bounds below, so checked arithmetic never reverts *)
(* and is modelled on Nat.                                                 *)
(*                                                                         *)
(* Representation.  A profile is keyed by its owner's address (the         *)
(* registry allows one profile per address); status "None" stands for      *)
(* addressToProfileId = 0.  Profile and proposal fields that no contract   *)
(* reads (names, e-mails, document hashes, metadata, creation stamps,      *)
(* approvedBy) are left out.  Mappings from address to bool are sets.      *)
(* Time is block.timestamp in seconds, counted from the deployment.        *)
(*                                                                         *)
(* Six specifications share the actions:                                   *)
(*   Spec      governance from the deployment (profiles, proposals, votes, *)
(*             executions, recomputations, weights, stakes);               *)
(*   DaoSpec   governance continued from a state Spec reaches, with a DAO  *)
(*             member elected and a second proposal to come;               *)
(*   ExecSpec  the same continuation with proposals of every type, for the *)
(*             side effects of executions;                                 *)
(*   QuorumSpec the same continuation with up to three proposals, several  *)
(*             of them open at once;                                       *)
(*   ScoreSpec recomputation of the metrics over populated payment         *)
(*             histories and changing weights;                             *)
(*   PaySpec   UtilityPayment (src/contracts/ProfileRegistry.sol from line *)
(*             335) and the reward token (src/unnamed/part_009).           *)
(* ProfileRegistry operations that do not touch the modelled fields        *)
(* (updateProfile, uploadDocument) and rejectProfile are not stepped.      *)
(* Bills are paid in PaySpec only; elsewhere payment histories keep their  *)
(* initial value.                                                          *)
(***************************************************************************)
EXTENDS Integers, Sequences, FiniteSets, TLC

\* ---------------------------------------------------------------- addresses
Users == {"u1", "u2"}
Owner == "owner"
RS == "rs"
UP == "up"
Addr == Users \cup {Owner, RS, UP}

\* ---------------------------------------------------------------- constants
Day == 86400
VOTING_DURATION == 7 * Day
MIN_PROPOSAL_THRESHOLD == 1000
QUORUM_THRESHOLD == 30
APPROVAL_THRESHOLD == 60
MIN_REPUTATION_SCORE == 100
MAX_REPUTATION_SCORE == 1000
StakePerProposal == 1000
onTimeRewardRate == 5
earlyPaymentBonus == 2
platformFeeRate == 1
EARLY_PAYMENT_THRESHOLD == 7 * Day
OVERDUE_PENALTY_DAYS == 30 * Day
reputationLevels == <<100, 200, 350, 500, 700, 900, 1200, 1500, 2000, 2500>>

ProposalTypes == {"ProfileApproval", "ProfileSuspension", "AdminAddition",
                  "AdminRemoval", "DAOAddition", "DAORemoval", "ParameterUpdate"}

\* ---------------------------------------------------------------- bounds
MaxProposals == 1
MaxDays == 8
MaxStake == 100
MaxBills == 2
MaxPayDays == 38
MaxFunding == 10
\* the deployer's token balance after the token's constructor; it stands for
\* INITIAL_SUPPLY (10^26), which exceeds every amount moved within the bounds
InitialSupply == 1000

MaxTime == MaxDays * Day
TimeSteps == {VOTING_DURATION, VOTING_DURATION + Day}
ScoreInputs == [u \in Users |-> IF u = "u1" THEN {100, 1000} ELSE {999}]
WeightInputs == {<<100, 0, 0>>, <<50, 50, 50>>}
ProposalInputs == {<<"ProfileApproval", "u2">>, <<"DAOAddition", "u1">>, <<"ParameterUpdate", "u1">>}
SuspendInputs == {"u2"}
DescriptionInputs == {"", "d"}
StakeInputs == {0, 100}
ProposalIdInputs == 0..(MaxProposals + 1)
PayTimeSteps == {7 * Day, 31 * Day}
BillAmountInputs == {10, 100}
DueInInputs == {7 * Day}
BillIdInputs == 0..(MaxBills + 1)
FundingInputs == {5}
\* <<totalPayments, onTimePayments>>
HistoryInputs == {<<0, 0>>, <<10, 10>>, <<10, 8>>, <<10, 7>>, <<10, 6>>, <<9, 8>>,
                  <<75, 75>>, <<125, 125>>}
ScoreWeightInputs == {<<0, 100, 0>>, <<100, 0, 0>>, <<50, 50, 50>>, <<0, 0, 0>>}
RescoreInputs == {50, 1000}
DaoProposalInputs == {<<"DAORemoval", "u1">>, <<"DAOAddition", "u2">>}
DaoStakeInputs == {0, 50, 100}
DaoProposalIdInputs == 0..(MaxProposals + 2)
ExecProposalInputs == {<<"ProfileApproval", "u2">>, <<"ProfileSuspension", "u1">>,
                       <<"ProfileSuspension", "owner">>, <<"AdminAddition", "u2">>,
                       <<"AdminRemoval", "owner">>, <<"AdminRemoval", "rs">>,
                       <<"DAOAddition", "u2">>, <<"DAORemoval", "u1">>,
                       <<"ParameterUpdate", "u2">>}
QuorumProposalInputs == {<<"ParameterUpdate", "u2">>, <<"DAORemoval", "u1">>,
                         <<"DAOAddition", "u1">>}
QuorumStakeInputs == {0, 100}
DaoWeightInputs == {<<50, 50, 0>>, <<50, 50, 50>>}

VARIABLES
    now,
    profiles, prAdmins, prDaos, prOwner,
    paymentHistories, bills, tokenBalances,
    proposals, reputationMetrics, daos, admins, daoStakes, rsBalance,
    profileWeight, paymentWeight, communityWeight

prVars == <<profiles, prAdmins, prDaos, prOwner>>
weightVars == <<profileWeight, paymentWeight, communityWeight>>
rsVars == <<proposals, reputationMetrics, daos, admins, daoStakes, rsBalance, weightVars>>
upVars == <<paymentHistories, bills, tokenBalances>>
vars == <<now, prVars, upVars, rsVars>>

\* ------------------------------------------------------------ ProfileRegistry
NoProfile == [status |-> "None", reputationScore |-> 0, isActive |-> FALSE]

HasProfile(a) == a \in Users /\ profiles[a].status # "None"

\* variant: the active flag is not consulted
isVerified_approved(a) == HasProfile(a) /\ profiles[a].status = "Approved"

isVerified(a) ==
    IF ~HasProfile(a) THEN FALSE
    ELSE profiles[a].status = "Approved" /\ profiles[a].isActive

PrOnlyAdmin(sender) == sender \in prAdmins \/ sender = prOwner
PrOnlyAdminOrDAO(sender) == sender \in prAdmins \/ sender \in prDaos \/ sender = prOwner

approveProfileOk(sender, a) ==
    /\ HasProfile(a)
    /\ PrOnlyAdminOrDAO(sender)
    /\ profiles[a].status = "Pending"

approveProfileEffect(a) ==
    [profiles EXCEPT ![a].status = "Approved",
                     ![a].reputationScore = MIN_REPUTATION_SCORE]

suspendProfileOk(sender, a) == HasProfile(a) /\ PrOnlyAdmin(sender)

suspendProfileEffect(a) ==
    [profiles EXCEPT ![a].status = "Suspended", ![a].isActive = FALSE]

addAdminOk(sender, a) == sender = prOwner
removeAdminOk(sender, a) == sender = prOwner /\ a # prOwner
addDAOOk(sender, a) == sender = prOwner
removeDAOOk(sender, a) == sender = prOwner


\* ------------------------------------------------------------ UtilityPayment
NoHistory == [totalPayments |-> 0, onTimePayments |-> 0, overduePayments |-> 0,
              totalRewardsEarned |-> 0, lastPaymentDate |-> 0]

\* the deployer is the only authorized provider
onlyAuthorizedProvider(sender) == sender = Owner

billExists(id) == id > 0 /\ id <= Len(bills)

\* bill.dueDate - EARLY_PAYMENT_THRESHOLD is written as an addition on the other
\* side: block.timestamp exceeds 7 days on every chain, so the subtraction
\* never underflows there, while the clock of this model starts at 0
calculateReward(b) ==
    IF now > b.dueDate + OVERDUE_PENALTY_DAYS THEN 0
    ELSE LET baseReward == (b.amount * onTimeRewardRate) \div 100
         IN  IF now + EARLY_PAYMENT_THRESHOLD <= b.dueDate
             THEN baseReward + (b.amount * earlyPaymentBonus) \div 100
             ELSE IF now <= b.dueDate THEN baseReward
             ELSE baseReward \div 2

\* ERC20 transfer of the reward token: the sender's balance must cover it
tokenTransferOk(from, amount) == tokenBalances[from] >= amount

tokenTransferEffect(from, to, amount) ==
    IF from = to THEN tokenBalances
    ELSE [tokenBalances EXCEPT ![from] = @ - amount, ![to] = @ + amount]

payBillOk(u, id, value) ==
    /\ billExists(id)
    /\ isVerified(u)
    /\ bills[id].user = u
    /\ ~bills[id].isPaid
    /\ value >= bills[id].amount
    /\ calculateReward(bills[id]) > 0 =>
           tokenTransferOk(UP, calculateReward(bills[id]))

payBillHistory(h, b) ==
    LET rewardAmount == calculateReward(b)
    IN  [h EXCEPT !.totalPayments = @ + 1,
                  !.lastPaymentDate = now,
                  !.onTimePayments = IF now <= b.dueDate THEN @ + 1 ELSE @,
                  !.overduePayments = IF now <= b.dueDate THEN @ ELSE @ + 1,
                  !.totalRewardsEarned = @ + rewardAmount]

\* ------------------------------------------------------------ ReputationSystem
NoMetrics == [profileScore |-> 0, paymentScore |-> 0, communityScore |-> 0,
              totalScore |-> 0, lastUpdated |-> 0, level |-> 0]

proposalExists(id) == id > 0 /\ id <= Len(proposals)

onlyVerifiedUser(sender) == isVerified(sender)

\* variant: no role is required
onlyDAO_anyone(sender) == TRUE

onlyDAO(sender) == sender \in daos

\* variant: the stake counts whether or not the role is held
calculateVotingPower_stakeAlways(u) ==
    reputationMetrics[u].totalScore + daoStakes[u]

calculateVotingPower(u) ==
    LET basePower == reputationMetrics[u].totalScore
    IN  IF u \in daos THEN basePower + daoStakes[u] ELSE basePower

\* variant: the stake actually deposited
getTotalStake_deposited == daoStakes["u1"] + daoStakes["u2"]

getTotalStake == StakePerProposal * Len(proposals)

getTotalProposals == Len(proposals)

\* createProposal -------------------------------------------------------
\* variant: strict comparison with the threshold
hasProposalReputation_strict(u) ==
    reputationMetrics[u].totalScore > MIN_PROPOSAL_THRESHOLD

hasProposalReputation(u) == reputationMetrics[u].totalScore >= MIN_PROPOSAL_THRESHOLD

createProposalOk(u, description) ==
    /\ onlyVerifiedUser(u)
    /\ hasProposalReputation(u)
    /\ Len(description) > 0

\* variant: the voting window is twice as long
NewProposal_longWindow(u, type, target, description) ==
    [id |-> Len(proposals) + 1,
     proposalType |-> type,
     proposer |-> u,
     targetAddress |-> target,
     description |-> description,
     votesFor |-> 0,
     votesAgainst |-> 0,
     startTime |-> now,
     endTime |-> now + 2 * VOTING_DURATION,
     status |-> "Active",
     executed |-> FALSE,
     hasVoted |-> {},
     votingPower |-> [v \in Users |-> 0]]

NewProposal(u, type, target, description) ==
    [id |-> Len(proposals) + 1,
     proposalType |-> type,
     proposer |-> u,
     targetAddress |-> target,
     description |-> description,
     votesFor |-> 0,
     votesAgainst |-> 0,
     startTime |-> now,
     endTime |-> now + VOTING_DURATION,
     status |-> "Active",
     executed |-> FALSE,
     hasVoted |-> {},
     votingPower |-> [v \in Users |-> 0]]

\* vote -----------------------------------------------------------------
\* variant: the window closes one instant early
votingOpen_early(p) == now < p.endTime

\* variant: votes are accepted after endTime too
votingOpen_always(p) == TRUE

votingOpen(p) == now <= p.endTime

\* variant: the has-voted check is missing
notYetVoted_absent(p, u) == TRUE

notYetVoted(p, u) == u \notin p.hasVoted

\* variant: neither the status nor the voting window is checked
voteOk_noStateCheck(u, id) ==
    /\ proposalExists(id)
    /\ onlyVerifiedUser(u)
    /\ notYetVoted(proposals[id], u)
    /\ calculateVotingPower(u) > 0

voteOk(u, id) ==
    /\ proposalExists(id)
    /\ onlyVerifiedUser(u)
    /\ proposals[id].status = "Active"
    /\ votingOpen(proposals[id])
    /\ notYetVoted(proposals[id], u)
    /\ calculateVotingPower(u) > 0

\* variant: an opposing vote is added to both tallies
voteEffect_bothSides(p, u, support) ==
    LET power == calculateVotingPower(u)
    IN  [p EXCEPT !.hasVoted = @ \cup {u},
                  !.votingPower[u] = power,
                  !.votesFor = @ + power,
                  !.votesAgainst = IF support THEN @ ELSE @ + power]

voteEffect(p, u, support) ==
    LET power == calculateVotingPower(u)
    IN  [p EXCEPT !.hasVoted = @ \cup {u},
                  !.votingPower[u] = power,
                  !.votesFor = IF support THEN @ + power ELSE @,
                  !.votesAgainst = IF support THEN @ ELSE @ + power]

\* executeProposal ------------------------------------------------------
\* variant: execution is allowed from endTime itself
votingEnded_inclusive(p) == now >= p.endTime

votingEnded(p) == now > p.endTime

\* variant: the quorum check is missing
quorumMet_absent(p) == TRUE

quorumMet(p) ==
    p.votesFor + p.votesAgainst >= (getTotalStake * QUORUM_THRESHOLD) \div 100

\* variant: simple majority
approved_majority(p) == p.votesFor > p.votesAgainst

approved(p) ==
    p.votesFor > ((p.votesFor + p.votesAgainst) * APPROVAL_THRESHOLD) \div 100

\* variant: the outcome of the registry call is ignored
dispatchOk_ignored(p) == TRUE

\* the calls _executeProposal makes into ProfileRegistry, with msg.sender = RS
dispatchOk(p) ==
    CASE p.proposalType = "ProfileApproval"   -> approveProfileOk(RS, p.targetAddress)
      [] p.proposalType = "ProfileSuspension" -> suspendProfileOk(RS, p.targetAddress)
      [] p.proposalType = "AdminAddition"     -> addAdminOk(RS, p.targetAddress)
      [] p.proposalType = "AdminRemoval"      -> removeAdminOk(RS, p.targetAddress)
      [] p.proposalType = "DAOAddition"       -> addDAOOk(RS, p.targetAddress)
      [] p.proposalType = "DAORemoval"        -> removeDAOOk(RS, p.targetAddress)
      [] OTHER                                -> TRUE

\* variant: neither the status nor the executed flag is checked
executeChecksOk_repeatable(id) ==
    /\ proposalExists(id)
    /\ votingEnded(proposals[id])
    /\ quorumMet(proposals[id])

executeChecksOk(id) ==
    /\ proposalExists(id)
    /\ proposals[id].status = "Active"
    /\ votingEnded(proposals[id])
    /\ ~proposals[id].executed
    /\ quorumMet(proposals[id])

executeProposalOk(id) ==
    /\ executeChecksOk(id)
    /\ approved(proposals[id]) => dispatchOk(proposals[id])

\* updateReputationMetrics ------------------------------------------------
\* variant: no on-time tiers
_calculatePaymentScore_flat(h) == h.totalPayments * 10

_calculatePaymentScore(h) ==
    IF h.totalPayments = 0 THEN 0
    ELSE LET onTimeRate == (h.onTimePayments * 100) \div h.totalPayments
             baseScore == h.totalPayments * 10
         IN  IF onTimeRate >= 90 THEN baseScore * 2
             ELSE IF onTimeRate >= 80 THEN (baseScore * 150) \div 100
             ELSE IF onTimeRate >= 70 THEN (baseScore * 120) \div 100
             ELSE baseScore

\* variant: only the proposals still Active are counted
_calculateCommunityScore_activeOnly(u) ==
    50 * Cardinality({i \in 1..Len(proposals) :
                         proposals[i].proposer = u /\ proposals[i].status = "Active"})
    + 10 * Cardinality({i \in 1..Len(proposals) :
                         u \in proposals[i].hasVoted /\ proposals[i].status = "Active"})

_calculateCommunityScore(u) ==
    50 * Cardinality({i \in 1..Len(proposals) : proposals[i].proposer = u})
    + 10 * Cardinality({i \in 1..Len(proposals) : u \in proposals[i].hasVoted})

\* variant: the index keeps counting past the last threshold
_calculateReputationLevel_unclamped(totalScore) ==
    1 + Cardinality({i \in 1..Len(reputationLevels) : totalScore >= reputationLevels[i]})

_calculateReputationLevel(totalScore) ==
    LET below == {i \in 1..Len(reputationLevels) : totalScore < reputationLevels[i]}
    IN  IF below = {} THEN 10
        ELSE CHOOSE i \in below : \A j \in below : i <= j

totalScoreOf(profileScore, paymentScore, communityScore) ==
    (profileScore * profileWeight) \div 100
    + (paymentScore * paymentWeight) \div 100
    + (communityScore * communityWeight) \div 100

\* variant: the new total is added to the stored one
NewMetrics_accumulating(u) ==
    LET ps == profiles[u].reputationScore
        pay == _calculatePaymentScore(paymentHistories[u])
        com == _calculateCommunityScore(u)
        tot == reputationMetrics[u].totalScore + totalScoreOf(ps, pay, com)
    IN  [profileScore |-> ps, paymentScore |-> pay, communityScore |-> com,
         totalScore |-> tot, lastUpdated |-> now,
         level |-> _calculateReputationLevel(tot)]

NewMetrics(u) ==
    LET ps == profiles[u].reputationScore
        pay == _calculatePaymentScore(paymentHistories[u])
        com == _calculateCommunityScore(u)
        tot == totalScoreOf(ps, pay, com)
    IN  [profileScore |-> ps, paymentScore |-> pay, communityScore |-> com,
         totalScore |-> tot, lastUpdated |-> now,
         level |-> _calculateReputationLevel(tot)]

\* updateScoringWeights ---------------------------------------------------
\* variant: the sum may stay below 100
weightsSumOk_atMost(w) == w[1] + w[2] + w[3] <= 100

weightsSumOk(w) == w[1] + w[2] + w[3] = 100


\* ======================================================================
\* Initial state: the three contracts as deployed by Owner
\* ======================================================================
Init ==
    /\ now = 0
    /\ profiles = [u \in Users |-> NoProfile]
    /\ prAdmins = {Owner}
    /\ prDaos = {}
    /\ prOwner = Owner
    /\ paymentHistories = [u \in Users |-> NoHistory]
    /\ bills = <<>>
    /\ tokenBalances = [a \in Addr |-> IF a = Owner THEN InitialSupply ELSE 0]
    /\ proposals = <<>>
    /\ reputationMetrics = [u \in Users |-> NoMetrics]
    /\ daos = {}
    /\ admins = {Owner}
    /\ daoStakes = [u \in Users |-> 0]
    /\ rsBalance = 0
    /\ profileWeight = 30
    /\ paymentWeight = 40
    /\ communityWeight = 30

\* ======================================================================
\* Environment: the clock and direct calls of ProfileRegistry
\* ======================================================================
AdvanceTime(d) ==
    /\ now' = now + d
    /\ UNCHANGED <<prVars, upVars, rsVars>>

PrCreateProfile(u) ==
    /\ profiles[u].status = "None"
    /\ profiles' = [profiles EXCEPT ![u] =
           [status |-> "Pending", reputationScore |-> 0, isActive |-> TRUE]]
    /\ UNCHANGED <<now, prAdmins, prDaos, prOwner, upVars, rsVars>>

PrApproveProfile(sender, u) ==
    /\ approveProfileOk(sender, u)
    /\ profiles' = approveProfileEffect(u)
    /\ UNCHANGED <<now, prAdmins, prDaos, prOwner, upVars, rsVars>>

PrSuspendProfile(sender, u) ==
    /\ suspendProfileOk(sender, u)
    /\ profiles' = suspendProfileEffect(u)
    /\ UNCHANGED <<now, prAdmins, prDaos, prOwner, upVars, rsVars>>

PrUpdateReputationScore(sender, u, newScore) ==
    /\ PrOnlyAdminOrDAO(sender)
    /\ HasProfile(u)
    /\ newScore >= 0 /\ newScore <= MAX_REPUTATION_SCORE
    /\ profiles' = [profiles EXCEPT ![u].reputationScore = newScore,
                                    ![u].isActive = ~(newScore < MIN_REPUTATION_SCORE)]
    /\ UNCHANGED <<now, prAdmins, prDaos, prOwner, upVars, rsVars>>

PrAddAdmin(sender, a) ==
    /\ addAdminOk(sender, a)
    /\ prAdmins' = prAdmins \cup {a}
    /\ UNCHANGED <<now, profiles, prDaos, prOwner, upVars, rsVars>>

PrRemoveAdmin(sender, a) ==
    /\ removeAdminOk(sender, a)
    /\ prAdmins' = prAdmins \ {a}
    /\ UNCHANGED <<now, profiles, prDaos, prOwner, upVars, rsVars>>

PrTransferOwnership(sender, newOwner) ==
    /\ sender = prOwner
    /\ prOwner' = newOwner
    /\ UNCHANGED <<now, profiles, prAdmins, prDaos, upVars, rsVars>>

\* ======================================================================
\* UtilityPayment and NexusToken transactions.  The ether moved by payBill
\* (to the owner, the fee recipient and back to the payer) adds up to
\* msg.value and goes to plain accounts, so those transfers never fail and
\* ether balances are not kept.
\* ======================================================================
CreateBill(sender, u, amount, dueDate) ==
    /\ onlyAuthorizedProvider(sender)
    /\ amount > 0
    /\ dueDate > now
    /\ bills' = Append(bills, [user |-> u, amount |-> amount, dueDate |-> dueDate,
                               isPaid |-> FALSE])
    /\ UNCHANGED <<now, prVars, paymentHistories, tokenBalances, rsVars>>

PayBill(u, id, value) ==
    /\ payBillOk(u, id, value)
    /\ bills' = [bills EXCEPT ![id].isPaid = TRUE]
    /\ paymentHistories' =
           [paymentHistories EXCEPT ![u] = payBillHistory(@, bills[id])]
    /\ tokenBalances' = tokenTransferEffect(UP, u, calculateReward(bills[id]))
    /\ UNCHANGED <<now, prVars, rsVars>>

TokenTransfer(from, to, amount) ==
    /\ tokenTransferOk(from, amount)
    /\ tokenBalances' = tokenTransferEffect(from, to, amount)
    /\ UNCHANGED <<now, prVars, paymentHistories, bills, rsVars>>

\* ======================================================================
\* ReputationSystem transactions
\* ======================================================================
\* variant: creating a proposal also refreshes the proposer's metrics
CreateProposal_refreshing(u, type, target, description) ==
    /\ createProposalOk(u, description)
    /\ proposals' = Append(proposals, NewProposal(u, type, target, description))
    /\ reputationMetrics' = [reputationMetrics EXCEPT ![u] =
           [NewMetrics(u) EXCEPT !.communityScore = @ + 50]]
    /\ UNCHANGED <<now, prVars, upVars, daos, admins, daoStakes, rsBalance, weightVars>>

CreateProposal(u, type, target, description) ==
    /\ createProposalOk(u, description)
    /\ proposals' = Append(proposals, NewProposal(u, type, target, description))
    /\ UNCHANGED <<now, prVars, upVars, reputationMetrics, daos, admins,
                   daoStakes, rsBalance, weightVars>>

Vote(u, id, support) ==
    /\ voteOk(u, id)
    /\ proposals' = [proposals EXCEPT ![id] = voteEffect(@, u, support)]
    /\ UNCHANGED <<now, prVars, upVars, reputationMetrics, daos, admins,
                   daoStakes, rsBalance, weightVars>>

\* variant: a new DAO member is entered in the admin set as well
DispatchEffect_alsoAdmin(p) ==
    LET t == p.targetAddress
        ty == p.proposalType
    IN  /\ profiles' = CASE ty = "ProfileApproval"   -> approveProfileEffect(t)
                         [] ty = "ProfileSuspension" -> suspendProfileEffect(t)
                         [] OTHER                    -> profiles
        /\ prAdmins' = CASE ty = "AdminAddition" -> prAdmins \cup {t}
                         [] ty = "AdminRemoval"  -> prAdmins \ {t}
                         [] OTHER                -> prAdmins
        /\ admins' = CASE ty \in {"AdminAddition", "DAOAddition"} -> admins \cup {t}
                       [] ty = "AdminRemoval"  -> admins \ {t}
                       [] OTHER                -> admins
        /\ prDaos' = CASE ty = "DAOAddition" -> prDaos \cup {t}
                       [] ty = "DAORemoval"  -> prDaos \ {t}
                       [] OTHER              -> prDaos
        /\ daos' = CASE ty = "DAOAddition" -> daos \cup {t}
                     [] ty = "DAORemoval"  -> daos \ {t}
                     [] OTHER              -> daos

\* _executeProposal: the side effect of an approved proposal
DispatchEffect(p) ==
    LET t == p.targetAddress
        ty == p.proposalType
    IN  /\ profiles' = CASE ty = "ProfileApproval"   -> approveProfileEffect(t)
                         [] ty = "ProfileSuspension" -> suspendProfileEffect(t)
                         [] OTHER                    -> profiles
        /\ prAdmins' = CASE ty = "AdminAddition" -> prAdmins \cup {t}
                         [] ty = "AdminRemoval"  -> prAdmins \ {t}
                         [] OTHER                -> prAdmins
        /\ admins' = CASE ty = "AdminAddition" -> admins \cup {t}
                       [] ty = "AdminRemoval"  -> admins \ {t}
                       [] OTHER                -> admins
        /\ prDaos' = CASE ty = "DAOAddition" -> prDaos \cup {t}
                       [] ty = "DAORemoval"  -> prDaos \ {t}
                       [] OTHER              -> prDaos
        /\ daos' = CASE ty = "DAOAddition" -> daos \cup {t}
                     [] ty = "DAORemoval"  -> daos \ {t}
                     [] OTHER              -> daos

ExecuteProposal(id) ==
    /\ executeProposalOk(id)
    /\ IF approved(proposals[id])
       THEN /\ proposals' = [proposals EXCEPT ![id].status = "Executed",
                                              ![id].executed = TRUE]
            /\ DispatchEffect(proposals[id])
       ELSE /\ proposals' = [proposals EXCEPT ![id].status = "Rejected"]
            /\ UNCHANGED <<profiles, prAdmins, prDaos, daos, admins>>
    /\ UNCHANGED <<now, prOwner, upVars, reputationMetrics, daoStakes,
                   rsBalance, weightVars>>

\* variant: a recomputation also refreshes the power recorded for the
\* participant on the proposals still Active
UpdateReputationMetrics_live(u) ==
    /\ isVerified(u)
    /\ reputationMetrics' = [reputationMetrics EXCEPT ![u] = NewMetrics(u)]
    /\ proposals' = [id \in DOMAIN proposals |->
           IF u \in proposals[id].hasVoted /\ proposals[id].status = "Active"
           THEN [proposals[id] EXCEPT !.votingPower[u] = NewMetrics(u).totalScore]
           ELSE proposals[id]]
    /\ UNCHANGED <<now, prVars, upVars, daos, admins, daoStakes,
                   rsBalance, weightVars>>

UpdateReputationMetrics(u) ==
    /\ isVerified(u)
    /\ reputationMetrics' = [reputationMetrics EXCEPT ![u] = NewMetrics(u)]
    /\ UNCHANGED <<now, prVars, upVars, proposals, daos, admins, daoStakes,
                   rsBalance, weightVars>>

\* variant: the weights are stored without the sum check
UpdateScoringWeights_unchecked(sender, w) ==
    /\ sender = Owner
    /\ profileWeight' = w[1]
    /\ paymentWeight' = w[2]
    /\ communityWeight' = w[3]
    /\ UNCHANGED <<now, prVars, upVars, proposals, reputationMetrics, daos,
                   admins, daoStakes, rsBalance>>

UpdateScoringWeights(sender, w) ==
    /\ sender = Owner
    /\ weightsSumOk(w)
    /\ profileWeight' = w[1]
    /\ paymentWeight' = w[2]
    /\ communityWeight' = w[3]
    /\ UNCHANGED <<now, prVars, upVars, proposals, reputationMetrics, daos,
                   admins, daoStakes, rsBalance>>

\* variant: the payment is not compared with the amount
StakeAsDAO_uncollateralised(u, amount, value) ==
    /\ onlyDAO(u)
    /\ amount > 0
    /\ daoStakes' = [daoStakes EXCEPT ![u] = @ + amount]
    /\ rsBalance' = rsBalance + value
    /\ UNCHANGED <<now, prVars, upVars, proposals, reputationMetrics, daos,
                   admins, weightVars>>

StakeAsDAO(u, amount, value) ==
    /\ onlyDAO(u)
    /\ amount > 0
    /\ value >= amount
    /\ daoStakes' = [daoStakes EXCEPT ![u] = @ + amount]
    /\ rsBalance' = rsBalance + value
    /\ UNCHANGED <<now, prVars, upVars, proposals, reputationMetrics, daos,
                   admins, weightVars>>

\* variant: the role is not required to withdraw
UnstakeAsDAO_noRole(u, amount) ==
    /\ amount > 0
    /\ daoStakes[u] >= amount
    /\ rsBalance >= amount
    /\ daoStakes' = [daoStakes EXCEPT ![u] = @ - amount]
    /\ rsBalance' = rsBalance - amount
    /\ UNCHANGED <<now, prVars, upVars, proposals, reputationMetrics, daos,
                   admins, weightVars>>

UnstakeAsDAO(u, amount) ==
    /\ onlyDAO(u)
    /\ amount > 0
    /\ daoStakes[u] >= amount
    /\ rsBalance >= amount
    /\ daoStakes' = [daoStakes EXCEPT ![u] = @ - amount]
    /\ rsBalance' = rsBalance - amount
    /\ UNCHANGED <<now, prVars, upVars, proposals, reputationMetrics, daos,
                   admins, weightVars>>

\* ======================================================================
DirectSenders == {Owner} \cup Users

Next ==
    \/ \E d \in TimeSteps : now + d <= MaxTime /\ AdvanceTime(d)
    \/ \E u \in Users : PrCreateProfile(u)
    \/ \E s \in DirectSenders, u \in Users : PrApproveProfile(s, u)
    \/ \E s \in DirectSenders, u \in SuspendInputs : PrSuspendProfile(s, u)
    \/ \E s \in DirectSenders, u \in Users : \E n \in ScoreInputs[u] :
           PrUpdateReputationScore(s, u, n)
    \/ \E s \in DirectSenders : PrTransferOwnership(s, RS)
    \/ \E u \in Users, pi \in ProposalInputs, d \in DescriptionInputs :
           Len(proposals) < MaxProposals /\ CreateProposal(u, pi[1], pi[2], d)
    \/ \E u \in Users, id \in ProposalIdInputs, s \in BOOLEAN : Vote(u, id, s)
    \/ \E id \in ProposalIdInputs : ExecuteProposal(id)
    \/ \E u \in Users : UpdateReputationMetrics(u)
    \/ \E s \in DirectSenders, w \in WeightInputs : UpdateScoringWeights(s, w)
    \/ \E u \in Users, a \in StakeInputs, v \in StakeInputs :
           daoStakes[u] + a <= MaxStake /\ StakeAsDAO(u, a, v)
    \/ \E u \in Users, a \in StakeInputs : UnstakeAsDAO(u, a)

Spec == Init /\ [][Next]_vars

\* ----------------------------------------------------------------------
\* ScoreSpec: recomputation of the metrics over populated payment histories.
\* A participant starts either Pending, without payments, or Approved with
\* a payment history drawn from HistoryInputs (payments of bills too small
\* to earn a reward, the last of them at the initial instant).
\* ----------------------------------------------------------------------
HistoryOf(h) ==
    [totalPayments |-> h[1], onTimePayments |-> h[2], overduePayments |-> h[1] - h[2],
     totalRewardsEarned |-> 0, lastPaymentDate |-> 0]

ScoreInit ==
    /\ now = 0
    /\ \E approvedUsers \in SUBSET Users :
           /\ profiles = [u \in Users |->
                  IF u \in approvedUsers
                  THEN [status |-> "Approved", reputationScore |-> MIN_REPUTATION_SCORE,
                        isActive |-> TRUE]
                  ELSE [status |-> "Pending", reputationScore |-> 0, isActive |-> TRUE]]
           /\ \E hs \in [Users -> HistoryInputs] :
                  /\ \A u \in Users \ approvedUsers : hs[u] = <<0, 0>>
                  /\ paymentHistories = [u \in Users |-> HistoryOf(hs[u])]
    /\ prAdmins = {Owner}
    /\ prDaos = {}
    /\ prOwner = Owner
    /\ bills = <<>>
    /\ tokenBalances = [a \in Addr |-> IF a = Owner THEN InitialSupply ELSE 0]
    /\ proposals = <<>>
    /\ reputationMetrics = [u \in Users |-> NoMetrics]
    /\ daos = {}
    /\ admins = {Owner}
    /\ daoStakes = [u \in Users |-> 0]
    /\ rsBalance = 0
    /\ profileWeight = 30
    /\ paymentWeight = 40
    /\ communityWeight = 30

ScoreNext ==
    \/ \E s \in DirectSenders, u \in Users : PrApproveProfile(s, u)
    \/ \E s \in DirectSenders, u \in Users, n \in RescoreInputs :
           PrUpdateReputationScore(s, u, n)
    \/ \E u \in Users : UpdateReputationMetrics(u)
    \/ \E s \in DirectSenders, w \in ScoreWeightInputs : UpdateScoringWeights(s, w)

ScoreSpec == ScoreInit /\ [][ScoreNext]_vars

\* ----------------------------------------------------------------------
\* DaoSpec: governance continued from a state that Spec reaches, 8 days after
\* the deployment: the registry is owned by the governance contract, the
\* weights are (100, 0, 0), both participants are verified with recomputed
\* metrics, and proposal 1, which made u1 a DAO member, has been executed.
\* ----------------------------------------------------------------------
DaoInit ==
    /\ now = 8 * Day
    /\ profiles = [u \in Users |->
           [status |-> "Approved", reputationScore |-> IF u = "u1" THEN 1000 ELSE 999,
            isActive |-> TRUE]]
    /\ prAdmins = {Owner}
    /\ prDaos = {"u1"}
    /\ prOwner = RS
    /\ paymentHistories = [u \in Users |-> NoHistory]
    /\ bills = <<>>
    /\ tokenBalances = [a \in Addr |-> IF a = Owner THEN InitialSupply ELSE 0]
    /\ proposals = << [id |-> 1, proposalType |-> "DAOAddition", proposer |-> "u1",
                       targetAddress |-> "u1", description |-> "d",
                       votesFor |-> 1000, votesAgainst |-> 0,
                       startTime |-> 0, endTime |-> VOTING_DURATION,
                       status |-> "Executed", executed |-> TRUE,
                       hasVoted |-> {"u1"},
                       votingPower |-> [v \in Users |-> IF v = "u1" THEN 1000 ELSE 0]] >>
    /\ reputationMetrics = [u \in Users |->
           [profileScore |-> profiles[u].reputationScore, paymentScore |-> 0,
            communityScore |-> 0, totalScore |-> profiles[u].reputationScore,
            lastUpdated |-> 0, level |-> 7]]
    /\ daos = {"u1"}
    /\ admins = {Owner}
    /\ daoStakes = [u \in Users |-> 0]
    /\ rsBalance = 0
    /\ profileWeight = 100
    /\ paymentWeight = 0
    /\ communityWeight = 0

DaoNext ==
    \/ \E d \in TimeSteps : now + d <= 2 * MaxTime /\ AdvanceTime(d)
    \/ \E u \in Users, pi \in DaoProposalInputs, d \in DescriptionInputs :
           Len(proposals) < MaxProposals + 1 /\ CreateProposal(u, pi[1], pi[2], d)
    \/ \E u \in Users, id \in DaoProposalIdInputs, s \in BOOLEAN : Vote(u, id, s)
    \/ \E id \in DaoProposalIdInputs : ExecuteProposal(id)
    \/ \E u \in Users : UpdateReputationMetrics(u)
    \/ \E s \in DirectSenders, w \in DaoWeightInputs : UpdateScoringWeights(s, w)
    \/ \E u \in Users, a \in DaoStakeInputs, v \in DaoStakeInputs :
           /\ daoStakes[u] + a <= MaxStake
           /\ rsBalance + v <= MaxStake
           /\ StakeAsDAO(u, a, v)
    \/ \E u \in Users, a \in DaoStakeInputs : UnstakeAsDAO(u, a)

DaoSpec == DaoInit /\ [][DaoNext]_vars

\* ----------------------------------------------------------------------
\* ExecSpec: the side effects of executions.  It starts like DaoSpec, from a
\* state that Spec reaches, but with u2 still Pending, and proposes every
\* proposal type.
\* ----------------------------------------------------------------------
ExecInit ==
    /\ now = 8 * Day
    /\ profiles = [u \in Users |->
           IF u = "u1"
           THEN [status |-> "Approved", reputationScore |-> 1000, isActive |-> TRUE]
           ELSE [status |-> "Pending", reputationScore |-> 0, isActive |-> TRUE]]
    /\ prAdmins = {Owner}
    /\ prDaos = {"u1"}
    /\ prOwner = RS
    /\ paymentHistories = [u \in Users |-> NoHistory]
    /\ bills = <<>>
    /\ tokenBalances = [a \in Addr |-> IF a = Owner THEN InitialSupply ELSE 0]
    /\ proposals = << [id |-> 1, proposalType |-> "DAOAddition", proposer |-> "u1",
                       targetAddress |-> "u1", description |-> "d",
                       votesFor |-> 1000, votesAgainst |-> 0,
                       startTime |-> 0, endTime |-> VOTING_DURATION,
                       status |-> "Executed", executed |-> TRUE,
                       hasVoted |-> {"u1"},
                       votingPower |-> [v \in Users |-> IF v = "u1" THEN 1000 ELSE 0]] >>
    /\ reputationMetrics = [u \in Users |->
           IF u = "u1"
           THEN [profileScore |-> 1000, paymentScore |-> 0, communityScore |-> 0,
                 totalScore |-> 1000, lastUpdated |-> 0, level |-> 7]
           ELSE NoMetrics]
    /\ daos = {"u1"}
    /\ admins = {Owner}
    /\ daoStakes = [u \in Users |-> 0]
    /\ rsBalance = 0
    /\ profileWeight = 100
    /\ paymentWeight = 0
    /\ communityWeight = 0

ExecNext ==
    \/ \E d \in TimeSteps : now + d <= 2 * MaxTime /\ AdvanceTime(d)
    \/ \E s \in DirectSenders, u \in Users : PrApproveProfile(s, u)
    \/ \E u \in Users : UpdateReputationMetrics(u)
    \/ \E u \in Users, pi \in ExecProposalInputs, d \in DescriptionInputs :
           Len(proposals) < MaxProposals + 1 /\ CreateProposal(u, pi[1], pi[2], d)
    \/ \E u \in Users, id \in DaoProposalIdInputs, s \in BOOLEAN : Vote(u, id, s)
    \/ \E id \in DaoProposalIdInputs : ExecuteProposal(id)

ExecSpec == ExecInit /\ [][ExecNext]_vars

\* ----------------------------------------------------------------------
\* QuorumSpec: several proposals open at once.  It starts like DaoSpec, with
\* a second participant whose power alone meets the quorum of two proposals
\* but not of three, and runs over three voting periods.
\* ----------------------------------------------------------------------
QuorumInit ==
    /\ now = 8 * Day
    /\ profiles = [u \in Users |->
           [status |-> "Approved", reputationScore |-> IF u = "u1" THEN 1000 ELSE 700,
            isActive |-> TRUE]]
    /\ prAdmins = {Owner}
    /\ prDaos = {"u1"}
    /\ prOwner = RS
    /\ paymentHistories = [u \in Users |-> NoHistory]
    /\ bills = <<>>
    /\ tokenBalances = [a \in Addr |-> IF a = Owner THEN InitialSupply ELSE 0]
    /\ proposals = << [id |-> 1, proposalType |-> "DAOAddition", proposer |-> "u1",
                       targetAddress |-> "u1", description |-> "d",
                       votesFor |-> 1000, votesAgainst |-> 0,
                       startTime |-> 0, endTime |-> VOTING_DURATION,
                       status |-> "Executed", executed |-> TRUE,
                       hasVoted |-> {"u1"},
                       votingPower |-> [v \in Users |-> IF v = "u1" THEN 1000 ELSE 0]] >>
    /\ reputationMetrics = [u \in Users |->
           [profileScore |-> profiles[u].reputationScore, paymentScore |-> 0,
            communityScore |-> 0, totalScore |-> profiles[u].reputationScore,
            lastUpdated |-> 0,
            level |-> _calculateReputationLevel(profiles[u].reputationScore)]]
    /\ daos = {"u1"}
    /\ admins = {Owner}
    /\ daoStakes = [u \in Users |-> 0]
    /\ rsBalance = 0
    /\ profileWeight = 100
    /\ paymentWeight = 0
    /\ communityWeight = 0

QuorumNext ==
    \/ \E d \in TimeSteps : now + d <= 3 * MaxTime /\ AdvanceTime(d)
    \/ \E u \in Users, pi \in QuorumProposalInputs, d \in DescriptionInputs :
           Len(proposals) < MaxProposals + 2 /\ CreateProposal(u, pi[1], pi[2], d)
    \/ \E u \in Users, id \in DaoProposalIdInputs, s \in BOOLEAN : Vote(u, id, s)
    \/ \E id \in DaoProposalIdInputs : ExecuteProposal(id)
    \/ \E u \in Users, a \in QuorumStakeInputs, v \in QuorumStakeInputs :
           /\ daoStakes[u] + a <= MaxStake
           /\ rsBalance + v <= MaxStake
           /\ StakeAsDAO(u, a, v)
    \/ \E u \in Users, a \in QuorumStakeInputs : UnstakeAsDAO(u, a)

QuorumSpec == QuorumInit /\ [][QuorumNext]_vars

\* ----------------------------------------------------------------------
\* PaySpec: bill payment from the deployment.  The owner may or may not
\* fund UtilityPayment with reward tokens.
\* ----------------------------------------------------------------------
PayNext ==
    \/ \E d \in PayTimeSteps : now + d <= MaxPayDays * Day /\ AdvanceTime(d)
    \/ \E u \in Users : PrCreateProfile(u)
    \/ \E s \in DirectSenders, u \in Users : PrApproveProfile(s, u)
    \/ \E s \in DirectSenders, u \in Users, a \in BillAmountInputs, d \in DueInInputs :
           Len(bills) < MaxBills /\ CreateBill(s, u, a, now + d)
    \/ \E u \in Users, id \in BillIdInputs, a \in BillAmountInputs : PayBill(u, id, a)
    \/ \E a \in FundingInputs :
           tokenBalances[UP] + a <= MaxFunding /\ TokenTransfer(Owner, UP, a)

PaySpec == Init /\ [][PayNext]_vars


\* ======================================================================
\* Properties
\* ======================================================================
ProposalIds == 1..Len(proposals)

\* the participant's profile is Approved and active (the registry's notion of verified)
Verified(u) == profiles[u].status = "Approved" /\ profiles[u].isActive

\* stored total score plus the stake of a current DAO member
PowerOf(u) ==
    reputationMetrics[u].totalScore + (IF u \in daos THEN daoStakes[u] ELSE 0)

\* C1: double-vote prevention.  Once u has voted on a proposal, no step is a
\* vote by u on that proposal, whatever the support value; u stays marked, u's
\* recorded power never changes, and the tallies move only when another
\* participant is added to the voters.
C1_NoDoubleVote ==
    [][\A id \in ProposalIds : \A u \in proposals[id].hasVoted :
        LET p == proposals[id]
            q == proposals'[id]
        IN  /\ \A s \in BOOLEAN : ~Vote(u, id, s)
            /\ u \in q.hasVoted
            /\ q.votingPower[u] = p.votingPower[u]
            /\ q.hasVoted = p.hasVoted =>
                   (q.votesFor = p.votesFor /\ q.votesAgainst = p.votesAgainst)]_vars

\* a voter who has voted and whom only the has-voted check keeps from voting again
C1_Witness ==
    \E id \in ProposalIds : \E u \in proposals[id].hasVoted :
        /\ proposals[id].status = "Active"
        /\ now <= proposals[id].endTime
        /\ Verified(u)
        /\ PowerOf(u) > 0

\* C7: executeProposal on an Active proposal at any time now <= endTime
\* (exactly at endTime included) fails: no step from such a state takes the
\* proposal out of Active, sets its executed flag or changes its tallies,
\* except a vote, which leaves status and flag alone.
C7_NoExecuteBeforeEnd ==
    [][\A id \in ProposalIds :
        (proposals[id].status = "Active" /\ now <= proposals[id].endTime) =>
            /\ ~ExecuteProposal(id)
            /\ proposals'[id].status = "Active"
            /\ proposals'[id].executed = FALSE]_vars

\* an Active proposal exactly at endTime that only the time check keeps from executing
C7_Witness ==
    \E id \in ProposalIds :
        LET p == proposals[id]
        IN  /\ p.status = "Active"
            /\ now = p.endTime
            /\ (p.votesFor + p.votesAgainst) * 100 >=
                   QUORUM_THRESHOLD * StakePerProposal * Len(proposals)
            /\ p.votesFor * 100 > APPROVAL_THRESHOLD * (p.votesFor + p.votesAgainst)
            /\ p.proposalType = "ParameterUpdate"

\* C8: vote(id, support) succeeds iff the proposal exists, is Active, now <=
\* endTime, the caller is verified, has not voted on it and has voting power
\* greater than 0.
VoteConditions(u, id) ==
    /\ id \in ProposalIds
    /\ proposals[id].status = "Active"
    /\ now <= proposals[id].endTime
    /\ Verified(u)
    /\ u \notin proposals[id].hasVoted
    /\ PowerOf(u) > 0

C8_VoteIff ==
    \A u \in Users, id \in ProposalIdInputs, s \in BOOLEAN :
        (ENABLED Vote(u, id, s)) <=> VoteConditions(u, id)

\* exactly at endTime one participant has voted and another still can; a third
\* case, a verified participant without voting power, cannot
C8_Witness ==
    \E id \in ProposalIds : \E u \in Users, v \in Users :
        /\ now = proposals[id].endTime
        /\ v \in proposals[id].hasVoted
        /\ VoteConditions(u, id)

\* C9: createProposal succeeds iff the caller is verified, its stored
\* totalScore is at least MIN_PROPOSAL_THRESHOLD (1000) and the description is
\* non-empty; 999 fails and 1000 succeeds.
C9_CreateIff ==
    \A u \in Users, pi \in ProposalInputs, d \in DescriptionInputs :
        (ENABLED CreateProposal(u, pi[1], pi[2], d)) <=>
            (Verified(u) /\ reputationMetrics[u].totalScore >= 1000 /\ d # "")

\* a proposal created by a participant with exactly 1000 while another verified
\* participant holds exactly 999
C9_Witness ==
    /\ Len(proposals) = 1
    /\ reputationMetrics[proposals[1].proposer].totalScore = 1000
    /\ \E v \in Users : Verified(v) /\ reputationMetrics[v].totalScore = 999


\* C2: weight freezing.  A step that is not a vote on the proposal (a
\* recomputation, a weight update, a stake or unstake, a role change through
\* an execution, a profile change) leaves the proposal's votesFor,
\* votesAgainst and every recorded voting power as they were.
C2_WeightFrozen ==
    [][\A id \in ProposalIds :
        LET p == proposals[id]
            q == proposals'[id]
        IN  (\A u \in Users, s \in BOOLEAN : ~Vote(u, id, s)) =>
                /\ q.votesFor = p.votesFor
                /\ q.votesAgainst = p.votesAgainst
                /\ q.votingPower = p.votingPower
                /\ q.hasVoted = p.hasVoted]_vars

\* a voter on an Active proposal whose current voting power is no longer the
\* power recorded at the vote
C2_Witness ==
    \E id \in ProposalIds : \E u \in proposals[id].hasVoted :
        /\ proposals[id].status = "Active"
        /\ proposals[id].votingPower[u] # PowerOf(u)

\* quorum as the contract computes it: 30% of 1000 per proposal ever created
BelowQuorum(p) ==
    (p.votesFor + p.votesAgainst) * 100 <
        QUORUM_THRESHOLD * StakePerProposal * Len(proposals)

Approval(p) ==
    p.votesFor * 100 > APPROVAL_THRESHOLD * (p.votesFor + p.votesAgainst)

Ended(p) == now > p.endTime

\* C3 as stated: after endTime, on an Active proposal below quorum,
\* executeProposal ends with the proposal Rejected.
C3_AsStated ==
    \A id \in ProposalIds :
        (proposals[id].status = "Active" /\ Ended(proposals[id])
            /\ BelowQuorum(proposals[id])) =>
            ENABLED (ExecuteProposal(id) /\ proposals'[id].status = "Rejected")

\* C3 (amended): after endTime, on an Active proposal below quorum,
\* executeProposal fails on the quorum requirement: the proposal stays Active
\* with executed = false; it is neither Executed nor Rejected.
C3_QuorumFailureKeepsActive ==
    [][\A id \in ProposalIds :
        (proposals[id].status = "Active" /\ Ended(proposals[id])
            /\ BelowQuorum(proposals[id])) =>
            /\ ~ExecuteProposal(id)
            /\ proposals'[id].status = "Active"
            /\ proposals'[id].executed = FALSE]_vars

\* an Active proposal past its window with some votes, yet below quorum
C3_Witness ==
    \E id \in ProposalIds :
        /\ proposals[id].status = "Active"
        /\ Ended(proposals[id])
        /\ proposals[id].hasVoted # {}
        /\ BelowQuorum(proposals[id])

\* C4: a proposal leaves Active only through an execution that either finds
\* votesFor strictly above 60% of the votes and makes it Executed, or else
\* makes it Rejected with executed = false and no change to any role set or
\* profile; after endTime with quorum met and votesFor not above 60% that
\* rejection is what executeProposal does.
C4_ApprovalGate ==
    \A id \in ProposalIds :
        LET p == proposals[id]
        IN  /\ (p.status = "Active" /\ Ended(p) /\ ~BelowQuorum(p) /\ ~Approval(p)) =>
                /\ ENABLED (/\ ExecuteProposal(id)
                            /\ proposals'[id].status = "Rejected"
                            /\ proposals'[id].executed = FALSE
                            /\ UNCHANGED <<prVars, daos, admins>>)
                /\ ~ENABLED (/\ ExecuteProposal(id)
                             /\ ~(/\ proposals'[id].status = "Rejected"
                                  /\ proposals'[id].executed = FALSE
                                  /\ UNCHANGED <<prVars, daos, admins>>))
            /\ p.status = "Executed" => Approval(p)
            /\ p.status = "Rejected" => (~Approval(p) /\ ~p.executed)

\* a Rejected proposal that had quorum and more votes for than against
C4_Witness ==
    \E id \in ProposalIds :
        /\ proposals[id].status = "Rejected"
        /\ ~BelowQuorum(proposals[id])
        /\ proposals[id].votesFor > proposals[id].votesAgainst

\* two voters, weight 100 each, on opposite sides
Tie100(p) ==
    /\ p.votesFor = 100
    /\ p.votesAgainst = 100
    /\ Cardinality(p.hasVoted) = 2

\* C5 as stated: with the 100/100 tie, executeProposal after the window
\* yields Rejected.
C5_AsStated ==
    \A id \in ProposalIds :
        (proposals[id].status = "Active" /\ Ended(proposals[id])
            /\ Tie100(proposals[id])) =>
            ENABLED (ExecuteProposal(id) /\ proposals'[id].status = "Rejected")

\* C5 (amended): with the 100/100 tie the 200 votes are below the quorum of
\* 300 per proposal created, so executeProposal fails and the proposal stays
\* Active: it is never Executed, and it is not Rejected either.
C5_TieStaysActive ==
    [][\A id \in ProposalIds :
        Tie100(proposals[id]) =>
            /\ ~ExecuteProposal(id)
            /\ proposals'[id].status = "Active"
            /\ proposals'[id].executed = FALSE]_vars

\* the tie, after the voting window
C5_Witness ==
    \E id \in ProposalIds :
        /\ Tie100(proposals[id])
        /\ Ended(proposals[id])
        /\ proposals[id].status = "Active"


\* the scenario of C6: 8 days after a creation, quorum and approval met
ExecutableAtDay8(p) ==
    /\ p.status = "Active"
    /\ now = p.startTime + 8 * Day
    /\ p.endTime = p.startTime + 7 * Day
    /\ ~BelowQuorum(p)
    /\ Approval(p)

BecomesExecuted(id) ==
    /\ ExecuteProposal(id)
    /\ proposals'[id].status = "Executed"
    /\ proposals'[id].executed = TRUE

\* C6 as stated: at t0 + 8 days with quorum and approval met, executeProposal
\* moves the proposal from Active to Executed.
C6_AsStated ==
    \A id \in ProposalIds :
        ExecutableAtDay8(proposals[id]) => ENABLED BecomesExecuted(id)

\* the call that an approved proposal of this type makes into ProfileRegistry
\* is accepted there when made by the governance contract
RegistryAccepts(p) ==
    LET t == p.targetAddress
        rsAdmin == RS \in prAdmins \/ RS = prOwner
    IN  CASE p.proposalType = "ProfileApproval" ->
                 /\ t \in Users
                 /\ profiles[t].status = "Pending"
                 /\ (rsAdmin \/ RS \in prDaos)
          [] p.proposalType = "ProfileSuspension" ->
                 t \in Users /\ profiles[t].status # "None" /\ rsAdmin
          [] p.proposalType = "AdminRemoval" -> RS = prOwner /\ t # RS
          [] p.proposalType \in {"AdminAddition", "DAOAddition", "DAORemoval"} ->
                 RS = prOwner
          [] OTHER -> TRUE

\* C6 (amended): at t0 + 8 days with quorum and approval met, and provided
\* the call dispatched into ProfileRegistry is accepted there, executeProposal
\* moves the proposal from Active to Executed with executed = true, and does
\* nothing else; when the registry refuses the call, executeProposal fails.
\* Every executeProposal on an Executed proposal fails, so the transition and
\* its side effect happen at most once.
C6_ExecutedOnce ==
    \A id \in ProposalIds :
        LET p == proposals[id]
        IN  /\ ExecutableAtDay8(p) =>
                /\ (ENABLED ExecuteProposal(id)) <=> RegistryAccepts(p)
                /\ ~ENABLED (ExecuteProposal(id) /\ ~BecomesExecuted(id))
            /\ p.status = "Executed" =>
                /\ p.executed
                /\ ~ENABLED ExecuteProposal(id)

\* an approval proposal executed 8 days after its creation: the target's
\* profile has been approved
C6_Witness ==
    \E id \in ProposalIds :
        LET p == proposals[id]
        IN  /\ p.status = "Executed"
            /\ p.executed
            /\ now = p.startTime + 8 * Day
            /\ p.proposalType = "ProfileApproval"
            /\ profiles[p.targetAddress].status = "Approved"

\* a participant whose profile has just been approved and whose metrics have
\* been recomputed with the default weights, before any governance activity
FreshlyRecomputed(u) ==
    /\ Verified(u)
    /\ profiles[u].reputationScore = MIN_REPUTATION_SCORE
    /\ paymentHistories[u].totalPayments = 0
    /\ Len(proposals) = 0
    /\ <<profileWeight, paymentWeight, communityWeight>> = <<30, 40, 30>>
    /\ reputationMetrics[u].profileScore = MIN_REPUTATION_SCORE
    /\ reputationMetrics[u].level >= 1

\* C10: such a participant can create a proposal, after which
\* getTotalProposals returns 1.
C10_FreshParticipantCreates ==
    \A u \in Users :
        FreshlyRecomputed(u) =>
            ENABLED (/\ CreateProposal(u, "ProfileApproval", "u2", "d")
                     /\ Len(proposals') = 1)

\* ---------------------------------------------------------------- C20
BillIds == 1..Len(bills)

\* UtilityPayment holds no reward tokens and none has ever left the deployer:
\* it has been registered as a minter and nothing more
OnlyRegisteredAsMinter ==
    /\ tokenBalances[UP] = 0
    /\ tokenBalances[Owner] = InitialSupply

\* C20: a verified user paying their own unpaid bill on or before its due
\* date with value >= the bill amount succeeds: the bill becomes paid,
\* totalPayments and onTimePayments each grow by one and the user's token
\* balance grows by the reward, while UtilityPayment is only a minter.
C20_OnTimePaymentRewarded ==
    \A u \in Users : \A id \in BillIds :
        (/\ Verified(u)
         /\ bills[id].user = u
         /\ ~bills[id].isPaid
         /\ now <= bills[id].dueDate
         /\ OnlyRegisteredAsMinter) =>
            ENABLED (/\ PayBill(u, id, bills[id].amount)
                     /\ bills'[id].isPaid
                     /\ paymentHistories'[u].totalPayments =
                            paymentHistories[u].totalPayments + 1
                     /\ paymentHistories'[u].onTimePayments =
                            paymentHistories[u].onTimePayments + 1
                     /\ tokenBalances'[u] =
                            tokenBalances[u] + calculateReward(bills[id]))

\* ---------------------------------------------------------------- C12, C13
WeightValues == {0, 50, 100}
WeightTriples == {<<a, b, c>> : a \in WeightValues, b \in WeightValues, c \in WeightValues}

Weights == <<profileWeight, paymentWeight, communityWeight>>

\* C12: updateScoringWeights(a, b, c) by the owner succeeds iff a + b + c =
\* 100, and then the three weights are exactly a, b, c; a failing call is no
\* step, so the weights keep their values.
C12_WeightsIff ==
    \A w \in WeightTriples :
        /\ (ENABLED UpdateScoringWeights(Owner, w)) <=> (w[1] + w[2] + w[3] = 100)
        /\ ~ENABLED (UpdateScoringWeights(Owner, w) /\ Weights' # w)

\* the owner has replaced the default weights by (0, 100, 0)
C12_Witness == Weights = <<0, 100, 0>>

\* C13: in every reachable state the three weights sum to 100.
C13_WeightsSumTo100 == profileWeight + paymentWeight + communityWeight = 100

\* the weights have been changed, here to (100, 0, 0), with recomputed metrics
\* stored under them
C13_Witness ==
    /\ Weights = <<100, 0, 0>>
    /\ \E u \in Users : reputationMetrics[u].level >= 1

\* ---------------------------------------------------------------- C15
\* metrics that a recomputation has written (a computed level is never 0)
Computed(u) == reputationMetrics[u].level # 0

\* C15: levels computed for two total scores are ordered as the scores are,
\* and every computed level lies in 1..10.
C15_MonotonicLadder ==
    \A u \in Users, v \in Users :
        (Computed(u) /\ Computed(v)) =>
            /\ reputationMetrics[u].level \in 1..10
            /\ reputationMetrics[u].totalScore < reputationMetrics[v].totalScore =>
                   reputationMetrics[u].level <= reputationMetrics[v].level

\* one participant at the bottom of the ladder, another at or past its last
\* threshold
C15_Witness ==
    \E u \in Users, v \in Users :
        /\ Computed(u) /\ Computed(v)
        /\ reputationMetrics[u].totalScore < 100
        /\ reputationMetrics[u].level = 1
        /\ reputationMetrics[v].totalScore >= 2500
        /\ reputationMetrics[v].level = 10

\* ---------------------------------------------------------------- C16
\* the payment score as the claim states it
PaymentScoreAsStated(totalPayments, onTimePayments) ==
    IF totalPayments = 0 THEN 0
    ELSE LET rate == (onTimePayments * 100) \div totalPayments
             base == totalPayments * 10
         IN  CASE rate >= 90 -> (base * 20) \div 10
               [] rate >= 80 /\ rate < 90 -> (base * 15) \div 10
               [] rate >= 70 /\ rate < 80 -> (base * 12) \div 10
               [] OTHER -> base

\* C16: the payment score stored by a recomputation is the stated function
\* of the participant's payment history; 10 payments, all on time, give 200.
C16_PaymentScore ==
    \A u \in Users :
        Computed(u) =>
            /\ reputationMetrics[u].paymentScore =
                   PaymentScoreAsStated(paymentHistories[u].totalPayments,
                                        paymentHistories[u].onTimePayments)
            /\ (paymentHistories[u].totalPayments = 10
                   /\ paymentHistories[u].onTimePayments = 10) =>
                   reputationMetrics[u].paymentScore = 200

\* the scenario of the claim next to a history in the 80% tier
C16_Witness ==
    \E u \in Users, v \in Users :
        /\ Computed(u) /\ Computed(v)
        /\ paymentHistories[u].totalPayments = 10
        /\ paymentHistories[u].onTimePayments = 10
        /\ reputationMetrics[u].paymentScore = 200
        /\ paymentHistories[v].onTimePayments = 8
        /\ reputationMetrics[v].paymentScore > 0

\* ---------------------------------------------------------------- C11
\* C11: while p is not verified (no profile, not Approved, or inactive) no
\* step is updateReputationMetrics(p), and p's stored metrics stay as they are.
C11_RecomputeOnlyVerified ==
    [][\A u \in Users :
        ~Verified(u) =>
            /\ ~UpdateReputationMetrics(u)
            /\ reputationMetrics'[u] = reputationMetrics[u]]_vars

\* an Approved participant with stored metrics whose score adjustment has
\* made the profile inactive
C11_Witness ==
    \E u \in Users :
        /\ profiles[u].status = "Approved"
        /\ ~profiles[u].isActive
        /\ Computed(u)

\* ---------------------------------------------------------------- C14
\* a metrics record with lastUpdated blanked: its five scores
Scores(m) == [m EXCEPT !.lastUpdated = 0]

\* C14: right after updateReputationMetrics(p) a second call would store the
\* same five scores; and a call made while the stored scores are those of the
\* current inputs changes nothing but lastUpdated.
C14_RecomputeIdempotent ==
    \A u \in Users :
        /\ ~ENABLED (/\ UpdateReputationMetrics(u)
                     /\ Scores(NewMetrics(u))' # Scores(reputationMetrics[u])')
        /\ Scores(reputationMetrics[u]) = Scores(NewMetrics(u)) =>
               ~ENABLED (/\ UpdateReputationMetrics(u)
                         /\ Scores(reputationMetrics[u])' # Scores(reputationMetrics[u]))

\* stored metrics with a community score, computed at an earlier instant and
\* still those of the current inputs, on a participant who can call again
C14_Witness ==
    \E u \in Users :
        /\ Verified(u)
        /\ Computed(u)
        /\ reputationMetrics[u].lastUpdated < now
        /\ reputationMetrics[u].communityScore > 0
        /\ reputationMetrics[u].profileScore = profiles[u].reputationScore
        /\ reputationMetrics[u].communityScore = _calculateCommunityScore(u)

\* ---------------------------------------------------------------- C17
\* C17: calculateVotingPower(p) is the stored totalScore plus the stake of a
\* current DAO member, plus 0 for anyone else; it is a function of the state
\* alone, and the power a vote records is that value.
C17_VotingPower ==
    \A u \in Users :
        /\ calculateVotingPower(u) =
               reputationMetrics[u].totalScore + (IF u \in daos THEN daoStakes[u] ELSE 0)
        /\ \A id \in ProposalIds, s \in BOOLEAN :
               ~ENABLED (Vote(u, id, s) /\ proposals'[id].votingPower[u] # PowerOf(u))

\* a participant who voted as a DAO member with a stake, the stake counted in
\* the recorded power, and who has since lost the role while keeping the stake
C17_Witness ==
    \E id \in ProposalIds : \E u \in proposals[id].hasVoted :
        /\ u \notin daos
        /\ daoStakes[u] > 0
        /\ proposals[id].votingPower[u] = reputationMetrics[u].totalScore + daoStakes[u]

\* ---------------------------------------------------------------- C18
Terminal(p) == p.status \in {"Executed", "Rejected"}

\* C18: once a proposal is Executed or Rejected no step changes any of its
\* fields, and no step is a vote on it or an execution of it.
C18_TerminalImmutable ==
    [][\A id \in ProposalIds :
        Terminal(proposals[id]) =>
            /\ id <= Len(proposals')
            /\ proposals'[id] = proposals[id]
            /\ ~ExecuteProposal(id)
            /\ \A u \in Users, s \in BOOLEAN : ~Vote(u, id, s)]_vars

\* an Executed and a Rejected proposal side by side, with a stake deposited
C18_Witness ==
    /\ \E id \in ProposalIds : proposals[id].status = "Executed"
    /\ \E id \in ProposalIds : proposals[id].status = "Rejected"
    /\ \E u \in Users : daoStakes[u] > 0

\* ---------------------------------------------------------------- C19
StakeBy(u, a) == [daoStakes EXCEPT ![u] = @ + a]

UnstakeBy(u, a) == [daoStakes EXCEPT ![u] = @ - a]

\* C19 as stated: a stake by a role holder with 0 < amount <= collateral
\* adds amount; an unstake with 0 < amount <= stake removes amount and
\* returns it; the listed failures are no steps.
C19_AsStated ==
    \A u \in Users, a \in DaoStakeInputs, v \in DaoStakeInputs :
        /\ (u \in daos /\ a > 0 /\ v >= a) =>
               ENABLED (StakeAsDAO(u, a, v) /\ daoStakes' = StakeBy(u, a))
        /\ (a > 0 /\ a <= daoStakes[u]) =>
               ENABLED (/\ UnstakeAsDAO(u, a)
                        /\ daoStakes' = UnstakeBy(u, a)
                        /\ rsBalance' = rsBalance - a)
        /\ (u \notin daos \/ a = 0 \/ v < a) => ~ENABLED StakeAsDAO(u, a, v)
        /\ a > daoStakes[u] => ~ENABLED UnstakeAsDAO(u, a)

\* C19 (amended): both operations require the caller to hold the DAO role at
\* the time of the call.  stakeAsDAO succeeds iff role, amount > 0 and
\* collateral >= amount, and adds exactly amount; unstakeAsDAO succeeds iff
\* role and 0 < amount <= stake, removes exactly amount and pays amount out.
\* Every other call, an unstake by a former role holder included, is no step.
C19_StakeLedger ==
    \A u \in Users, a \in DaoStakeInputs, v \in DaoStakeInputs :
        /\ (ENABLED StakeAsDAO(u, a, v)) <=> (u \in daos /\ a > 0 /\ v >= a)
        /\ ~ENABLED (StakeAsDAO(u, a, v) /\ daoStakes' # StakeBy(u, a))
        /\ (ENABLED UnstakeAsDAO(u, a)) <=> (u \in daos /\ a > 0 /\ a <= daoStakes[u])
        /\ ~ENABLED (/\ UnstakeAsDAO(u, a)
                     /\ ~(daoStakes' = UnstakeBy(u, a) /\ rsBalance' = rsBalance - a))

\* a former role holder whose stake of 50 is still recorded and still held
\* by the contract
C19_Witness ==
    \E u \in Users :
        /\ u \notin daos
        /\ daoStakes[u] = 50
        /\ rsBalance >= 50

\* ---------------------------------------------------------------- C22
\* executeProposal would pass its own checks and find the proposal approved
PassesOwnChecks(p) ==
    /\ p.status = "Active"
    /\ Ended(p)
    /\ ~p.executed
    /\ ~BelowQuorum(p)
    /\ Approval(p)

\* C22: when executeProposal passes the window, quorum and approval checks
\* but the registry refuses the dispatched call, the call fails as a whole:
\* no step is that execution, and the proposal stays Active with executed =
\* false and its tallies; the role sets of the governance contract and the
\* DAO set of the registry change only through the execution of another
\* proposal.
C22_AtomicDispatchFailure ==
    [][\A id \in ProposalIds :
        (PassesOwnChecks(proposals[id]) /\ ~RegistryAccepts(proposals[id])) =>
            /\ ~ExecuteProposal(id)
            /\ proposals'[id] = proposals[id]
            /\ <<daos, admins, prDaos>>' # <<daos, admins, prDaos>> =>
                   \E j \in ProposalIds \ {id} : ExecuteProposal(j)]_vars

\* an approved ProfileApproval proposal past its window whose target is no
\* longer Pending, next to a registry the governance contract does own
C22_Witness ==
    \E id \in ProposalIds :
        /\ PassesOwnChecks(proposals[id])
        /\ proposals[id].proposalType = "ProfileApproval"
        /\ profiles[proposals[id].targetAddress].status = "Approved"
        /\ prOwner = RS

\* ---------------------------------------------------------------- C23
\* C23: a participant's stored metrics change only in a step that is
\* updateReputationMetrics for that participant.
C23_NoImplicitRecomputation ==
    [][\A u \in Users :
        reputationMetrics'[u] # reputationMetrics[u] => UpdateReputationMetrics(u)]_vars

\* stale metrics: a stored total that is no longer the total of the current
\* profile score, proposals and weights
C23_Witness ==
    \E u \in Users :
        /\ Computed(u)
        /\ Len(proposals) = 1
        /\ reputationMetrics[u].totalScore #
               (profiles[u].reputationScore * profileWeight) \div 100
               + (reputationMetrics[u].paymentScore * paymentWeight) \div 100
               + (_calculateCommunityScore(u) * communityWeight) \div 100

\* ---------------------------------------------------------------- C21
\* the proposal becomes Executed and nothing else about any proposal changes
MarkedExecuted(id) ==
    proposals' = [proposals EXCEPT ![id].status = "Executed", ![id].executed = TRUE]

OtherProfilesSame(t) == \A u \in Users \ {t} : profiles'[u] = profiles[u]

\* the one side effect of an executed proposal of each type
SideEffectOf(p) ==
    LET t == p.targetAddress
        ty == p.proposalType
    IN  CASE ty = "ProfileApproval" ->
                 /\ profiles'[t].status = "Approved"
                 /\ OtherProfilesSame(t)
                 /\ UNCHANGED <<admins, prAdmins, daos, prDaos>>
          [] ty = "ProfileSuspension" ->
                 /\ profiles'[t].status = "Suspended"
                 /\ OtherProfilesSame(t)
                 /\ UNCHANGED <<admins, prAdmins, daos, prDaos>>
          [] ty = "AdminAddition" ->
                 /\ admins' = admins \cup {t}
                 /\ prAdmins' = prAdmins \cup {t}
                 /\ UNCHANGED <<profiles, daos, prDaos>>
          [] ty = "AdminRemoval" ->
                 /\ admins' = admins \ {t}
                 /\ prAdmins' = prAdmins \ {t}
                 /\ UNCHANGED <<profiles, daos, prDaos>>
          [] ty = "DAOAddition" ->
                 /\ daos' = daos \cup {t}
                 /\ prDaos' = prDaos \cup {t}
                 /\ UNCHANGED <<profiles, admins, prAdmins>>
          [] ty = "DAORemoval" ->
                 /\ daos' = daos \ {t}
                 /\ prDaos' = prDaos \ {t}
                 /\ UNCHANGED <<profiles, admins, prAdmins>>
          [] ty = "ParameterUpdate" ->
                 UNCHANGED <<profiles, admins, prAdmins, daos, prDaos>>

\* C21: a step that executes an approved proposal marks it Executed, applies
\* the side effect of its type to its target and changes nothing else.
C21_OneSideEffect ==
    [][\A id \in ProposalIds :
        (ExecuteProposal(id) /\ Approval(proposals[id])) =>
            /\ MarkedExecuted(id)
            /\ SideEffectOf(proposals[id])
            /\ UNCHANGED <<now, prOwner, upVars, reputationMetrics, daoStakes,
                           rsBalance, weightVars>>]_vars

\* an executed AdminRemoval: its target is in neither admin set, while the
\* DAO member elected earlier keeps the role
C21_Witness ==
    \E id \in ProposalIds :
        /\ proposals[id].status = "Executed"
        /\ proposals[id].proposalType = "AdminRemoval"
        /\ proposals[id].targetAddress \notin admins \cup prAdmins
        /\ daos = {"u1"}

\* ---------------------------------------------------------------- C24
\* the fields of a proposal that are fixed at creation
Fixed(p) == <<p.id, p.startTime, p.endTime, p.proposer, p.proposalType, p.targetAddress>>

CreatedNow(p) ==
    /\ p.status = "Active"
    /\ ~p.executed
    /\ p.votesFor = 0
    /\ p.votesAgainst = 0
    /\ p.hasVoted = {}
    /\ p.startTime = now
    /\ p.endTime = p.startTime + 7 * Day

IdsConsecutive ==
    /\ \A id \in DaoProposalIdInputs :
           proposalExists(id) <=> id \in 1..getTotalProposals
    /\ \A id \in 1..getTotalProposals : proposals[id].id = id

SomeCreateProposal ==
    \E u \in Users, pi \in DaoProposalInputs, d \in DescriptionInputs :
        CreateProposal(u, pi[1], pi[2], d)

\* C24: the existing ids are exactly 1..getTotalProposals; the count moves
\* only by a createProposal, which raises it by one and adds an Active,
\* unexecuted proposal with zero tallies, startTime = now and endTime 7 days
\* later; id, startTime, endTime, proposer, type and target of an existing
\* proposal never change.
C24_ConsecutiveIds ==
    [][/\ IdsConsecutive
       /\ IdsConsecutive'
       /\ SomeCreateProposal =>
              /\ getTotalProposals' = getTotalProposals + 1
              /\ proposals'[getTotalProposals'].id = getTotalProposals + 1
              /\ CreatedNow(proposals'[getTotalProposals'])
       /\ getTotalProposals' # getTotalProposals => SomeCreateProposal
       /\ \A id \in ProposalIds : Fixed(proposals'[id]) = Fixed(proposals[id])]_vars

\* a second proposal, created at day 8, has been voted on and decided
C24_Witness ==
    /\ getTotalProposals = 2
    /\ proposals[2].id = 2
    /\ proposals[2].startTime = 8 * Day
    /\ proposals[2].endTime = 15 * Day
    /\ proposals[2].hasVoted # {}
    /\ proposals[2].status # "Active"

\* ---------------------------------------------------------------- C26
\* what one proposal contributes to a participant's community score
Contribution(p, u) ==
    (IF p.proposer = u THEN 50 ELSE 0) + (IF u \in p.hasVoted THEN 10 ELSE 0)

RECURSIVE ContributionsUpTo(_, _)
ContributionsUpTo(n, u) ==
    IF n = 0 THEN 0 ELSE ContributionsUpTo(n - 1, u) + Contribution(proposals[n], u)

\* C26: a recomputation stores, as the community score, 50 per proposal the
\* participant proposed plus 10 per proposal the participant voted on, over
\* all the proposals whatever their status.
C26_CommunityScore ==
    [][\A u \in Users :
        UpdateReputationMetrics(u) =>
            reputationMetrics'[u].communityScore = ContributionsUpTo(Len(proposals), u)]_vars

\* two proposals proposed and voted on by the same participant, the first
\* one Executed: 2 * 50 + 2 * 10
C26_Witness ==
    \E u \in Users :
        /\ Len(proposals) = 2
        /\ proposals[1].status = "Executed"
        /\ \A id \in ProposalIds : proposals[id].proposer = u /\ u \in proposals[id].hasVoted
        /\ reputationMetrics[u].communityScore = 120

\* ---------------------------------------------------------------- C27
RECURSIVE RecordedPowerOf(_, _)
RecordedPowerOf(p, voters) ==
    IF voters = {} THEN 0
    ELSE LET v == CHOOSE x \in voters : TRUE
         IN  p.votingPower[v] + RecordedPowerOf(p, voters \ {v})

Conserved(p) ==
    /\ p.votesFor + p.votesAgainst = RecordedPowerOf(p, p.hasVoted)
    /\ \A v \in p.hasVoted : p.votingPower[v] > 0

\* C27: the two tallies of a proposal add up to the powers recorded for its
\* voters, each of them positive; a vote records the voter's voting power of
\* that moment and adds it to votesFor only when supporting, to votesAgainst
\* only when opposing.
C27_TallyConservation ==
    [][/\ \A id \in ProposalIds : Conserved(proposals[id])
       /\ \A id \in 1..Len(proposals') : Conserved(proposals'[id])
       /\ \A u \in Users, id \in ProposalIds, s \in BOOLEAN :
              Vote(u, id, s) =>
                  LET power == calculateVotingPower(u)
                      p == proposals[id]
                      q == proposals'[id]
                  IN  /\ q.votingPower[u] = power
                      /\ q.votesFor = p.votesFor + (IF s THEN power ELSE 0)
                      /\ q.votesAgainst = p.votesAgainst + (IF s THEN 0 ELSE power)]_vars

\* both participants have voted on a proposal, on opposite sides
C27_Witness ==
    \E id \in ProposalIds :
        /\ proposals[id].hasVoted = Users
        /\ proposals[id].votesFor > 0
        /\ proposals[id].votesAgainst > 0
        /\ proposals[id].votesFor + proposals[id].votesAgainst
               = proposals[id].votingPower["u1"] + proposals[id].votingPower["u2"]

\* ---------------------------------------------------------------- C29
RECURSIVE StakeSum(_)
StakeSum(S) ==
    IF S = {} THEN 0
    ELSE LET u == CHOOSE x \in S : TRUE IN daoStakes[u] + StakeSum(S \ {u})

\* C29: the collateral held by the contract covers the recorded stakes of all
\* participants, so an unstake by a role holder of a positive amount within
\* the caller's stake succeeds.
C29_StakeSolvency ==
    /\ rsBalance >= StakeSum(Users)
    /\ \A u \in Users, a \in DaoStakeInputs :
           (onlyDAO(u) /\ a > 0 /\ daoStakes[u] >= a) => ENABLED UnstakeAsDAO(u, a)

\* a role holder has a stake of 50 against a collateral of 100 and can
\* withdraw it
C29_Witness ==
    \E u \in Users :
        /\ onlyDAO(u)
        /\ daoStakes[u] = 50
        /\ StakeSum(Users) = 50
        /\ rsBalance = 100
        /\ ENABLED UnstakeAsDAO(u, 50)

\* ---------------------------------------------------------------- C30
\* a stake recorded for a participant who does not hold the role
Locked(t) == t \notin daos /\ daoStakes[t] > 0

ExecutesFor(type, t) ==
    \E id \in ProposalIds :
        /\ ExecuteProposal(id)
        /\ proposals[id].proposalType = type
        /\ proposals[id].targetAddress = t

\* C30: the role is lost only by an executed DAORemoval, which leaves the
\* recorded stake as it is; while the stake is locked no step is an unstake
\* by the participant, the stake stays the same and is not part of the
\* participant's voting power; the role comes back only by an executed
\* DAOAddition.
C30_StakeLockedByRemoval ==
    [][\A t \in Users :
        /\ (t \in daos /\ t \notin daos') =>
               ExecutesFor("DAORemoval", t) /\ daoStakes'[t] = daoStakes[t]
        /\ Locked(t) =>
               /\ \A a \in DaoStakeInputs : ~UnstakeAsDAO(t, a)
               /\ daoStakes'[t] = daoStakes[t]
               /\ calculateVotingPower(t) = reputationMetrics[t].totalScore
               /\ t \in daos' => ExecutesFor("DAOAddition", t)]_vars

\* a participant with a stake of 100 has been removed by an executed
\* DAORemoval; the collateral is still held
C30_Witness ==
    \E t \in Users, id \in ProposalIds :
        /\ proposals[id].proposalType = "DAORemoval"
        /\ proposals[id].targetAddress = t
        /\ proposals[id].executed
        /\ Locked(t)
        /\ daoStakes[t] = 100
        /\ rsBalance = 100

\* ---------------------------------------------------------------- C25
\* the votes a proposal needs to pass the quorum test: 30% of the total stake
RequiredVotes == (getTotalStake * 30) \div 100

Votes(p) == p.votesFor + p.votesAgainst

SomeQuorumCreateProposal ==
    \E u \in Users, pi \in QuorumProposalInputs, d \in DescriptionInputs :
        CreateProposal(u, pi[1], pi[2], d)

\* C25: the total stake is 1000 per proposal created; a stake or an unstake
\* leaves it as it is; a createProposal raises it by 1000 and the votes
\* required of every proposal not yet executed by 300.
C25_PlaceholderTotalStake ==
    [][/\ getTotalStake = 1000 * getTotalProposals
       /\ getTotalStake' = 1000 * getTotalProposals'
       /\ \A u \in Users, a \in QuorumStakeInputs :
              \/ UnstakeAsDAO(u, a)
              \/ \E v \in QuorumStakeInputs : StakeAsDAO(u, a, v)
              => getTotalStake' = getTotalStake
       /\ SomeQuorumCreateProposal =>
              /\ getTotalStake' = getTotalStake + 1000
              /\ RequiredVotes' = RequiredVotes + 300
              /\ \A id \in ProposalIds :
                     ~proposals[id].executed =>
                         (quorumMet(proposals[id])' <=>
                              Votes(proposals[id]) >= RequiredVotes + 300)]_vars

\* a proposal whose 700 votes met the quorum of two proposals is below the
\* quorum of three, while 100 is staked
C25_Witness ==
    \E id \in ProposalIds :
        /\ getTotalProposals = 3
        /\ proposals[id].status = "Active"
        /\ Votes(proposals[id]) = 700
        /\ Votes(proposals[id]) >= 600
        /\ Votes(proposals[id]) < RequiredVotes
        /\ daoStakes["u1"] = 100

\* ---------------------------------------------------------------- C28
\* executeProposal on the proposal fails after endTime for lack of quorum
QuorumFailed(p) ==
    /\ p.status = "Active"
    /\ ~p.executed
    /\ Ended(p)
    /\ BelowQuorum(p)

\* C28: once a proposal has failed the quorum test after its endTime, no
\* step executes it, its tallies stay as they are and it fails the quorum
\* test in the next state as well, still Active.
C28_QuorumFailurePermanent ==
    [][\A id \in ProposalIds :
        QuorumFailed(proposals[id]) =>
            /\ ~ExecuteProposal(id)
            /\ Votes(proposals'[id]) = Votes(proposals[id])
            /\ QuorumFailed(proposals[id])']_vars

\* a proposal with 700 votes is still Active more than a voting period after
\* its endTime, below the quorum of three proposals
C28_Witness ==
    \E id \in ProposalIds :
        /\ QuorumFailed(proposals[id])
        /\ Votes(proposals[id]) = 700
        /\ now >= proposals[id].endTime + 8 * Day

====
